---------------------------- MODULE Spec2Model ----------------------------
(***************************************************************************)
(* Floor-plan dimension extraction: detector.py (unlabeled records) and    *)
(* secondcode.py (room-labeled records).                                   *)
(*                                                                         *)
(* Strings are sequences of one-character strings.  The multiplication     *)
(* sign U+00D7 is written MulSign.  Python floats are modelled by exact    *)
(* fractions <<numerator, denominator>> in lowest terms.                   *)
(***************************************************************************)
EXTENDS Integers, Sequences, FiniteSets

VARIABLES
    variant,        \* which script runs: "detector" or "secondcode"
    pc,             \* position inside process_file (or the function under test)
    error,          \* the exception that ended the run, "none" while running
    text,           \* process_file: text
    dimensions,     \* process_file: dimensions (list of token strings)
    rooms,          \* secondcode.process_file: rooms
    scale,          \* process_file: scale (None or <<map, real>>)
    scale_factor,   \* process_file: scale_factor (None or a fraction)
    converted,      \* process_file: converted_dimensions
    labeled_data,   \* secondcode.process_file: labeled_data
    csv_file,       \* dimensions.csv: [written, data], NotWritten at first
    json_file,      \* dimensions.json: [written, data], NotWritten at first
    value,          \* parse_feet_inches: its argument
    result          \* parse_feet_inches: its outcome

vars == <<variant, pc, error, text, dimensions, rooms, scale, scale_factor,
          converted, labeled_data, csv_file, json_file, value, result>>

None == <<>>

------------------------------------------------------------------------------
(* Bounds *)

MaxSideLen == 5      \* longest side string handed to parse_feet_inches
MaxTokLen == 3       \* longest dimension token handed to convert_to_feet
MaxToks == 2         \* most tokens in a list handed to convert_to_feet
MaxWords == 4        \* most words in a word-built text
MaxTextLen == 7      \* longest character-built text

------------------------------------------------------------------------------
(* Characters *)

MulSign == "U+00D7"
Digits == {"0", "1", "2", "3", "4", "5", "6", "7", "8", "9"}
Letters ==
    {"a", "b", "c", "d", "e", "f", "g", "h", "i", "j", "k", "l", "m",
     "n", "o", "p", "q", "r", "s", "t", "u", "v", "w", "x", "y", "z",
     "A", "B", "C", "D", "E", "F", "G", "H", "I", "J", "K", "L", "M",
     "N", "O", "P", "Q", "R", "S", "T", "U", "V", "W", "X", "Y", "Z"}
WordChars == Digits \cup Letters \cup {"_"}
WhiteSpace == {" ", "\n"}
SepChars == {"x", "X", MulSign}

DigitVal(c) ==
    CASE c = "0" -> 0 [] c = "1" -> 1 [] c = "2" -> 2 [] c = "3" -> 3
      [] c = "4" -> 4 [] c = "5" -> 5 [] c = "6" -> 6 [] c = "7" -> 7
      [] c = "8" -> 8 [] c = "9" -> 9

RECURSIVE PyInt(_)
PyInt(ds) ==
    IF ds = <<>> THEN 0
    ELSE 10 * PyInt(SubSeq(ds, 1, Len(ds) - 1)) + DigitVal(ds[Len(ds)])

\* Every sequence over S of length n at most.
SeqsUpTo(S, n) == UNION {[1..k -> S] : k \in 0..n}

Range1(s) == {s[i] : i \in 1..Len(s)}

RECURSIVE PyStrip(_)
PyStrip(s) ==
    IF s = <<>> THEN s
    ELSE IF s[1] \in WhiteSpace THEN PyStrip(Tail(s))
    ELSE IF s[Len(s)] \in WhiteSpace THEN PyStrip(SubSeq(s, 1, Len(s) - 1))
    ELSE s

------------------------------------------------------------------------------
(* Fractions *)

RECURSIVE GCD(_, _)
GCD(a, b) == IF b = 0 THEN a ELSE GCD(b, a % b)

Frac(n, d) == LET g == GCD(n, d) IN <<n \div g, d \div g>>
FAdd(p, q) == Frac(p[1] * q[2] + q[1] * p[2], p[2] * q[2])
FMul(p, q) == Frac(p[1] * q[1], p[2] * q[2])

RECURSIVE Pow10(_)
Pow10(k) == IF k = 0 THEN 1 ELSE 10 * Pow10(k - 1)

\* round(x, 2): the nearest hundredth, a tie going to the even neighbour.
PyRound2(q) ==
    LET n == 100 * q[1]
        lo == n \div q[2]
        twice == 2 * (n % q[2])
        up == IF twice > q[2] THEN 1
              ELSE IF twice < q[2] THEN 0
              ELSE lo % 2
    IN  Frac(lo + up, 100)

------------------------------------------------------------------------------
(* The backtracking matcher of the re module, for patterns that are a      *)
(* sequence of greedy quantified character classes and \b assertions.      *)

\* A quantified class: at least min characters of set, greedily; one at most
\* unless many.
Cls(S, lo, m) == [kind |-> "cls", set |-> S, min |-> lo, many |-> m]
One(S) == Cls(S, 1, FALSE)
Opt(S) == Cls(S, 0, FALSE)
Star(S) == Cls(S, 0, TRUE)
Plus(S) == Cls(S, 1, TRUE)
WordB == [kind |-> "b"]
NoMatch == [ok |-> FALSE, ends |-> <<>>]

IsWordAt(s, i) == i >= 1 /\ i <= Len(s) /\ s[i] \in WordChars
AtBoundary(s, i) == IsWordAt(s, i - 1) # IsWordAt(s, i)

RECURSIVE RunLen(_, _, _, _)
RunLen(s, i, S, hi) ==
    IF hi = 0 \/ i > Len(s) THEN 0
    ELSE IF s[i] \in S THEN 1 + RunLen(s, i + 1, S, hi - 1)
    ELSE 0

\* ends[j] is the position just after item k+j-1 of the pattern.
RECURSIVE MatchFrom(_, _, _, _)
RECURSIVE TryCount(_, _, _, _, _)
MatchFrom(pat, k, s, i) ==
    IF k > Len(pat) THEN [ok |-> TRUE, ends |-> <<>>]
    ELSE IF pat[k].kind = "b"
    THEN IF AtBoundary(s, i)
         THEN LET r == MatchFrom(pat, k + 1, s, i)
              IN  IF r.ok THEN [ok |-> TRUE, ends |-> <<i>> \o r.ends] ELSE NoMatch
         ELSE NoMatch
    ELSE TryCount(pat, k, s, i, RunLen(s, i, pat[k].set, IF pat[k].many THEN Len(s) ELSE 1))

TryCount(pat, k, s, i, n) ==
    IF n < pat[k].min THEN NoMatch
    ELSE LET r == MatchFrom(pat, k + 1, s, i + n)
         IN  IF r.ok THEN [ok |-> TRUE, ends |-> <<i + n>> \o r.ends]
             ELSE TryCount(pat, k, s, i, n - 1)

\* re.findall for a pattern without groups: the non-overlapping matches, left to right.
RECURSIVE FindAllFrom(_, _, _)
FindAllFrom(pat, s, i) ==
    IF i > Len(s) + 1 THEN <<>>
    ELSE LET m == MatchFrom(pat, 1, s, i)
         IN  IF m.ok
             THEN LET e == m.ends[Len(pat)]
                  IN  <<SubSeq(s, i, e - 1)>> \o
                      FindAllFrom(pat, s, IF e = i THEN i + 1 ELSE e)
             ELSE FindAllFrom(pat, s, i + 1)

\* re.search: the match at the leftmost position that has one.
RECURSIVE SearchFrom(_, _, _)
SearchFrom(pat, s, i) ==
    IF i > Len(s) + 1 THEN [ok |-> FALSE, start |-> 0, ends |-> <<>>]
    ELSE LET m == MatchFrom(pat, 1, s, i)
         IN  IF m.ok THEN [ok |-> TRUE, start |-> i, ends |-> m.ends]
             ELSE SearchFrom(pat, s, i + 1)

------------------------------------------------------------------------------
(* Patterns *)

\* DIMENSION_PATTERN with \d* for the feet of the second side
DIMENSION_PATTERN_openSecondSide ==
    << WordB,
       Plus(Digits), Opt({"'"}), Star(WhiteSpace), Star(Digits), Opt({"\""}),
       Star(WhiteSpace), One(SepChars), Star(WhiteSpace),
       Star(Digits), Opt({"'"}), Star(WhiteSpace), Star(Digits), Opt({"\""}),
       WordB >>

DIMENSION_PATTERN ==
    << WordB,
       Plus(Digits), Opt({"'"}), Star(WhiteSpace), Star(Digits), Opt({"\""}),
       Star(WhiteSpace), One(SepChars), Star(WhiteSpace),
       Plus(Digits), Opt({"'"}), Star(WhiteSpace), Star(Digits), Opt({"\""}),
       WordB >>

SCALE_PATTERN ==
    << Plus(Digits), Star(WhiteSpace), One({":"}), Star(WhiteSpace), Plus(Digits) >>

FEET_INCHES_PATTERN ==
    << Plus(Digits), Opt({"'"}), Star(WhiteSpace), Star(Digits), Opt({"\""}) >>

ROOM_NAMES ==
    << <<"K","i","t","c","h","e","n">>,
       <<"B","e","d","r","o","o","m">>,
       <<"L","i","v","i","n","g"," ","R","o","o","m">>,
       <<"H","a","l","l">>,
       <<"B","a","t","h","r","o","o","m">>,
       <<"B","a","l","c","o","n","y">> >>

------------------------------------------------------------------------------
(* Extraction *)

extract_dimensions(t) == FindAllFrom(DIMENSION_PATTERN, t, 1)

extract_scale(t) ==
    LET m == SearchFrom(SCALE_PATTERN, t, 1)
    IN  IF m.ok
        THEN << PyInt(SubSeq(t, m.start, m.ends[1] - 1)),
                PyInt(SubSeq(t, m.ends[4], m.ends[5] - 1)) >>
        ELSE None

HasPrefixAt(s, i, w) == i + Len(w) - 1 <= Len(s) /\ SubSeq(s, i, i + Len(w) - 1) = w

\* The first alternative of ROOM_PATTERN that matches at i between two \b, 0 if none.
RECURSIVE RoomAt(_, _, _)
RoomAt(s, i, k) ==
    IF k > Len(ROOM_NAMES) THEN 0
    ELSE IF /\ AtBoundary(s, i)
            /\ HasPrefixAt(s, i, ROOM_NAMES[k])
            /\ AtBoundary(s, i + Len(ROOM_NAMES[k]))
    THEN k
    ELSE RoomAt(s, i, k + 1)

RECURSIVE FindRoomsFrom(_, _)
FindRoomsFrom(s, i) ==
    IF i > Len(s) THEN <<>>
    ELSE LET k == RoomAt(s, i, 1)
         IN  IF k # 0
             THEN <<ROOM_NAMES[k]>> \o FindRoomsFrom(s, i + Len(ROOM_NAMES[k]))
             ELSE FindRoomsFrom(s, i + 1)

extract_rooms(t) == FindRoomsFrom(t, 1)

------------------------------------------------------------------------------
(* Parsing and conversion *)

NoResult == [error |-> "unset", val |-> None]

\* float(s) for the strings of the alphabets used here: optional surrounding
\* white space, digits with an optional decimal point, at least one digit.
\* (Signs, exponents, underscores, inf and nan are outside those alphabets.)
PyFloat(s) ==
    LET t == PyStrip(s)
        ip == RunLen(t, 1, Digits, Len(t))
        hasDot == ip + 1 <= Len(t) /\ t[ip + 1] = "."
        fp == IF hasDot THEN RunLen(t, ip + 2, Digits, Len(t)) ELSE 0
        used == ip + (IF hasDot THEN 1 + fp ELSE 0)
    IN  IF used = Len(t) /\ ip + fp >= 1
        THEN [error |-> "none",
              val |-> FAdd(Frac(PyInt(SubSeq(t, 1, ip)), 1),
                           Frac(PyInt(SubSeq(t, ip + 2, ip + 1 + fp)), Pow10(fp)))]
        ELSE [error |-> "ValueError", val |-> None]

\* feet + inches / 10
FeetPlusInches_div10(feet, inches) == FAdd(Frac(feet, 1), Frac(inches, 10))

FeetPlusInches(feet, inches) == FAdd(Frac(feet, 1), Frac(inches, 12))

parse_feet_inches(v) ==
    LET m == MatchFrom(FEET_INCHES_PATTERN, 1, v, 1)
    IN  IF m.ok
        THEN LET g1 == SubSeq(v, 1, m.ends[1] - 1)
                 g2 == SubSeq(v, m.ends[3], m.ends[4] - 1)
                 feet == PyInt(g1)
                 inches == IF g2 # <<>> THEN PyInt(g2) ELSE 0
             IN  [error |-> "none", val |-> FeetPlusInches(feet, inches)]
        ELSE PyFloat(v)

\* re.split(r"[xX×]", s)
RECURSIVE PySplit(_)
PySplit(s) ==
    LET n == RunLen(s, 1, {c \in Range1(s) : c \notin SepChars}, Len(s))
    IN  IF n = Len(s) THEN <<s>>
        ELSE <<SubSeq(s, 1, n)>> \o PySplit(SubSeq(s, n + 2, Len(s)))

\* "if scale is not None:"
Truthy_notNone(sc) == sc # None

\* "if scale:" is false for None and for 0.0
Truthy(sc) == sc # None /\ sc[1] # 0

\* the scale applied to the width only
ApplyScale_widthOnly(w, h, sc) ==
    IF sc # None /\ sc[1] # 0 THEN <<FMul(w, sc), h>> ELSE <<w, h>>

ApplyScale(w, h, sc) ==
    IF Truthy(sc) THEN <<FMul(w, sc), FMul(h, sc)>> ELSE <<w, h>>

\* The loop of convert_to_feet from token k on; an exception of
\* parse_feet_inches ends it and loses the list built so far.
RECURSIVE ConvertLoop(_, _, _, _)
ConvertLoop(dims, sc, k, acc) ==
    IF k > Len(dims) THEN [error |-> "none", converted |-> acc]
    ELSE LET parts == PySplit(dims[k])
         IN  IF Len(parts) = 2
             THEN LET w == parse_feet_inches(PyStrip(parts[1]))
                      h == parse_feet_inches(PyStrip(parts[2]))
                  IN  IF w.error # "none" THEN [error |-> w.error, converted |-> <<>>]
                      ELSE IF h.error # "none" THEN [error |-> h.error, converted |-> <<>>]
                      ELSE ConvertLoop(dims, sc, k + 1,
                                       Append(acc, ApplyScale(w.val, h.val, sc)))
             ELSE ConvertLoop(dims, sc, k + 1, acc)

convert_to_feet(dims, sc) == ConvertLoop(dims, sc, 1, <<>>)

------------------------------------------------------------------------------
(* Records *)

NotWritten == [written |-> FALSE, data |-> <<>>]

\* The characters of repr(x) of a float x, kept as one item.
FloatStr(q) == <<[repr |-> q]>>

\* length and width taken in input order
UnlabeledRecord_swapped(pair) ==
    [length |-> <<[repr |-> pair[1]]>> \o <<" ", "f", "t">>,
     width |-> <<[repr |-> pair[2]]>> \o <<" ", "f", "t">>,
     unit |-> "feet"]

\* detector.save_to_json: one record of formatted_data
UnlabeledRecord(pair) ==
    [length |-> FloatStr(pair[2]) \o <<" ", "f", "t">>,
     width |-> FloatStr(pair[1]) \o <<" ", "f", "t">>,
     unit |-> "feet"]

formatted_data(data) == [k \in 1..Len(data) |-> UnlabeledRecord(data[k])]

csv_table(data) == [columns |-> <<"Width (ft)", "Height (ft)">>, rows |-> data]

\* secondcode.process_file: the record appended for room i (converted_dimensions[i][0]
\* is the first element of the pair)
LabeledRecord(room, pair) ==
    [name |-> room, length |-> PyRound2(pair[1]), width |-> PyRound2(pair[2]),
     unit |-> "ft"]

\* room i paired with the pair after its own
RECURSIVE LabelLoop_offByOne(_, _, _, _)
LabelLoop_offByOne(rs, conv, i, acc) ==
    IF i > Len(rs) THEN acc
    ELSE IF i + 1 <= Len(conv)
    THEN LabelLoop_offByOne(rs, conv, i + 1,
                            Append(acc, [name |-> rs[i],
                                         length |-> PyRound2(conv[i + 1][1]),
                                         width |-> PyRound2(conv[i + 1][2]),
                                         unit |-> "ft"]))
    ELSE LabelLoop_offByOne(rs, conv, i + 1, acc)

RECURSIVE LabelLoop(_, _, _, _)
LabelLoop(rs, conv, i, acc) ==
    IF i > Len(rs) THEN acc
    ELSE IF i <= Len(conv)
    THEN LabelLoop(rs, conv, i + 1, Append(acc, LabeledRecord(rs[i], conv[i])))
    ELSE LabelLoop(rs, conv, i + 1, acc)

------------------------------------------------------------------------------
(* Inputs *)

RECURSIVE SpaceJoin(_)
SpaceJoin(ws) ==
    IF ws = <<>> THEN <<>>
    ELSE IF Len(ws) = 1 THEN ws[1]
    ELSE ws[1] \o <<" ">> \o SpaceJoin(Tail(ws))

\* Text fragments as the recognizer returns them; " ".join makes the text.
Fragments ==
    { <<"H", "a", "l", "l">>,
      <<"K", "i", "t", "c", "h", "e", "n">>,
      <<"1", "'", "1", "\"", "x", "2">>,
      <<"3", "x", "1">>,
      <<"1", ":", "2">>,
      <<"2", ":", "0">>,
      <<"0", ":", "1">> }

WordTexts == {SpaceJoin(ws) : ws \in SeqsUpTo(Fragments, MaxWords)}

TextChars == {"1", "'", "\"", " ", "x"}
CharTexts == SeqsUpTo(TextChars, MaxTextLen)

SideChars == {"0", "1", "2", "'", "\"", " ", "."}
SideStrings == SeqsUpTo(SideChars, MaxSideLen)

TokenChars == {"1", "2", " ", "x"}
TokenLists == SeqsUpTo(SeqsUpTo(TokenChars, MaxTokLen), MaxToks)

------------------------------------------------------------------------------
(* process_file *)

Start(v, p, dims, sc, val) ==
    /\ variant = v
    /\ pc = p
    /\ error = "none"
    /\ text = <<>>
    /\ dimensions = dims
    /\ rooms = <<>>
    /\ scale = None
    /\ scale_factor = sc
    /\ converted = <<>>
    /\ labeled_data = <<>>
    /\ csv_file = NotWritten
    /\ json_file = NotWritten
    /\ value = val
    /\ result = NoResult

Init == \E v \in {"detector", "secondcode"} : Start(v, "acquire", <<>>, None, <<>>)

Raise(e) ==
    /\ error' = e
    /\ pc' = "failed"

\* extract_text_from_pdf / extract_text_from_image returns
Acquire(T) ==
    /\ pc = "acquire"
    /\ \E t \in T : text' = t
    /\ pc' = "extract"
    /\ UNCHANGED <<variant, error, dimensions, rooms, scale, scale_factor, converted,
                   labeled_data, csv_file, json_file, value, result>>

\* cv2.imread returned None (or the PDF could not be opened)
AcquireFail ==
    /\ pc = "acquire"
    /\ Raise("ValueError")
    /\ UNCHANGED <<variant, text, dimensions, rooms, scale, scale_factor, converted,
                   labeled_data, csv_file, json_file, value, result>>

Extract ==
    /\ pc = "extract"
    /\ dimensions' = extract_dimensions(text)
    /\ rooms' = IF variant = "secondcode" THEN extract_rooms(text) ELSE rooms
    /\ scale' = extract_scale(text)
    /\ pc' = "scale"
    /\ UNCHANGED <<variant, error, text, scale_factor, converted, labeled_data,
                   csv_file, json_file, value, result>>

\* the division by zero caught and the run carried on without a scale
ComputeScaleFactor_swallow ==
    /\ pc = "scale"
    /\ IF scale # None /\ scale[1] = 0
       THEN error' = "ZeroDivisionError" /\ scale_factor' = None
       ELSE /\ scale_factor' = IF scale # None THEN Frac(scale[2], scale[1]) ELSE None
            /\ UNCHANGED error
    /\ pc' = "convert"
    /\ UNCHANGED <<variant, text, dimensions, rooms, scale, converted, labeled_data,
                   csv_file, json_file, value, result>>

\* scale_factor = scale[1] / scale[0] if scale else None
ComputeScaleFactor ==
    /\ pc = "scale"
    /\ IF scale # None /\ scale[1] = 0
       THEN Raise("ZeroDivisionError") /\ UNCHANGED scale_factor
       ELSE /\ scale_factor' = IF scale # None THEN Frac(scale[2], scale[1]) ELSE None
            /\ pc' = "convert"
            /\ UNCHANGED error
    /\ UNCHANGED <<variant, text, dimensions, rooms, scale, converted, labeled_data,
                   csv_file, json_file, value, result>>

Convert ==
    /\ pc = "convert"
    /\ LET r == convert_to_feet(dimensions, scale_factor)
       IN  IF r.error # "none"
           THEN Raise(r.error) /\ UNCHANGED converted
           ELSE /\ converted' = r.converted
                /\ pc' = IF variant = "detector" THEN "save_csv" ELSE "label"
                /\ UNCHANGED error
    /\ UNCHANGED <<variant, text, dimensions, rooms, scale, scale_factor, labeled_data,
                   csv_file, json_file, value, result>>

LabelRooms ==
    /\ pc = "label"
    /\ labeled_data' = LabelLoop(rooms, converted, 1, <<>>)
    /\ pc' = "save_json"
    /\ UNCHANGED <<variant, error, text, dimensions, rooms, scale, scale_factor,
                   converted, csv_file, json_file, value, result>>

SaveCsv ==
    /\ pc = "save_csv"
    /\ csv_file' = [written |-> TRUE, data |-> csv_table(converted)]
    /\ pc' = "save_json"
    /\ UNCHANGED <<variant, error, text, dimensions, rooms, scale, scale_factor,
                   converted, labeled_data, json_file, value, result>>

SaveJson ==
    /\ pc = "save_json"
    /\ json_file' = [written |-> TRUE,
                     data |-> IF variant = "detector" THEN formatted_data(converted)
                              ELSE [rooms |-> labeled_data]]
    /\ pc' = "done"
    /\ UNCHANGED <<variant, error, text, dimensions, rooms, scale, scale_factor,
                   converted, labeled_data, csv_file, value, result>>

Next ==
    \/ Acquire(WordTexts)
    \/ AcquireFail
    \/ Extract
    \/ ComputeScaleFactor
    \/ Convert
    \/ LabelRooms
    \/ SaveCsv
    \/ SaveJson

Spec == Init /\ [][Next]_vars

\* detector.process_file on every short text over TextChars
InitChars == Start("detector", "acquire", <<>>, None, <<>>)

NextChars ==
    \/ Acquire(CharTexts)
    \/ AcquireFail
    \/ Extract
    \/ ComputeScaleFactor
    \/ Convert
    \/ SaveCsv
    \/ SaveJson

SpecChars == InitChars /\ [][NextChars]_vars

------------------------------------------------------------------------------
(* parse_feet_inches and convert_to_feet called on their own *)

InitParse == \E v \in SideStrings : Start("detector", "parse", <<>>, None, v)

CallParseFeetInches ==
    /\ pc = "parse"
    /\ result' = parse_feet_inches(value)
    /\ pc' = "parsed"
    /\ UNCHANGED <<variant, error, text, dimensions, rooms, scale, scale_factor,
                   converted, labeled_data, csv_file, json_file, value>>

SpecParse == InitParse /\ [][CallParseFeetInches]_vars

InitConvert ==
    \E dims \in TokenLists, sc \in {None, <<2, 1>>} :
        Start("detector", "call_convert", dims, sc, <<>>)

CallConvertToFeet ==
    /\ pc = "call_convert"
    /\ LET r == convert_to_feet(dimensions, scale_factor)
       IN  /\ error' = r.error
           /\ converted' = r.converted
           /\ pc' = IF r.error = "none" THEN "returned" ELSE "raised"
    /\ UNCHANGED <<variant, text, dimensions, rooms, scale, scale_factor, labeled_data,
                   csv_file, json_file, value, result>>

SpecConvert == InitConvert /\ [][CallConvertToFeet]_vars

------------------------------------------------------------------------------
(* What the properties are stated with *)

PastConvert == {"label", "save_csv", "save_json", "done"}

AllDigits(s) == s # <<>> /\ \A i \in 1..Len(s) : s[i] \in Digits

\* The number a digit string denotes, read from the left.
RECURSIVE DecVal(_, _)
DecVal(ds, acc) ==
    IF ds = <<>> THEN acc ELSE DecVal(Tail(ds), 10 * acc + DigitVal(Head(ds)))

\* The two sides of a token, each parsed on its own, before any scaling.
ParsedPair(tok) ==
    LET parts == PySplit(tok)
    IN  << parse_feet_inches(PyStrip(parts[1])).val,
           parse_feet_inches(PyStrip(parts[2])).val >>

UnscaledPairs == [k \in 1..Len(dimensions) |-> ParsedPair(dimensions[k])]

TimesFactor(pairs, f) ==
    [k \in 1..Len(pairs) |-> <<FMul(pairs[k][1], f), FMul(pairs[k][2], f)>>]

\* Length of the run of characters of S that ends at position i, going left.
RECURSIVE RunLenBack(_, _, _)
RunLenBack(s, i, S) ==
    IF i < 1 THEN 0
    ELSE IF s[i] \in S THEN 1 + RunLenBack(s, i - 1, S)
    ELSE 0

\* The A:B tokens of a text, found from their colons: digits, white space, a
\* colon, white space, digits.
ScaleTokenAt(t, c) ==
    LET wsL == RunLenBack(t, c - 1, WhiteSpace)
        dL == RunLenBack(t, c - 1 - wsL, Digits)
        wsR == RunLen(t, c + 1, WhiteSpace, Len(t))
        dR == RunLen(t, c + 1 + wsR, Digits, Len(t))
    IN  [ok |-> t[c] = ":" /\ dL >= 1 /\ dR >= 1,
         mapUnits |-> DecVal(SubSeq(t, c - wsL - dL, c - wsL - 1), 0),
         realUnits |-> DecVal(SubSeq(t, c + wsR + 1, c + wsR + dR), 0)]

ScaleColons(t) == {c \in 1..Len(t) : ScaleTokenAt(t, c).ok}

FirstScaleColon(t) == CHOOSE c \in ScaleColons(t) : \A d \in ScaleColons(t) : c <= d

\* Where the tokens of dims lie in t, one after the other, from position p on.
RECURSIVE InOrderFrom(_, _, _)
InOrderFrom(dims, t, p) ==
    IF dims = <<>> THEN TRUE
    ELSE \E i \in p..(Len(t) - Len(Head(dims)) + 1) :
            /\ HasPrefixAt(t, i, Head(dims))
            /\ InOrderFrom(Tail(dims), t, i + Len(Head(dims)))

Min2(a, b) == IF a <= b THEN a ELSE b

------------------------------------------------------------------------------
(* Properties of parse_feet_inches (SpecParse) *)

Parsed(q) == [error |-> "none", val |-> q]

\* digits, optionally followed by a decimal point and fractional digits
IsPlainDecimal(s) ==
    \/ AllDigits(s)
    \/ \E d \in 2..(Len(s) - 1) :
          /\ s[d] = "."
          /\ AllDigits(SubSeq(s, 1, d - 1))
          /\ AllDigits(SubSeq(s, d + 1, Len(s)))

\* C3: for every plain-decimal string s, parse_feet_inches(s) returns float(s).
C3_PlainDecimalIsFloat ==
    (pc = "parsed" /\ IsPlainDecimal(value)) => result = PyFloat(value)

\* C6: F'I" with 0 <= I < 12 parses to F + I/12 (12*F + I inches), and F' or F
\* alone parses to F.
C6_FeetInches ==
    pc = "parsed" =>
        \A a \in 1..Len(value) :
            AllDigits(SubSeq(value, 1, a)) =>
                LET F == DecVal(SubSeq(value, 1, a), 0)
                    n == Len(value)
                    inch == SubSeq(value, a + 2, n - 1)
                IN  /\ n = a => result = Parsed(<<F, 1>>)
                    /\ (n = a + 1 /\ value[n] = "'") => result = Parsed(<<F, 1>>)
                    /\ ( /\ n >= a + 3
                         /\ value[a + 1] = "'"
                         /\ value[n] = "\""
                         /\ AllDigits(inch)
                         /\ DecVal(inch, 0) < 12 )
                       => result = Parsed(Frac(12 * F + DecVal(inch, 0), 12))

C6_Witness ==
    /\ pc = "parsed"
    /\ value = <<"1", "'", "1", "0", "\"">>
    /\ result = Parsed(<<11, 6>>)

------------------------------------------------------------------------------
(* Properties of convert_to_feet (SpecConvert) *)

\* A token whose split gives exactly two sides, neither of them empty.
TwoSides(tok) ==
    LET parts == PySplit(tok)
    IN  Len(parts) = 2 /\ PyStrip(parts[1]) # <<>> /\ PyStrip(parts[2]) # <<>>

RECURSIVE PairsOfTwoSided(_, _)
PairsOfTwoSided(dims, sc) ==
    IF dims = <<>> THEN <<>>
    ELSE IF TwoSides(Head(dims))
    THEN <<ApplyScale(ParsedPair(Head(dims))[1], ParsedPair(Head(dims))[2], sc)>>
         \o PairsOfTwoSided(Tail(dims), sc)
    ELSE PairsOfTwoSided(Tail(dims), sc)

\* C2: a token that does not split into exactly two non-empty sides is dropped
\* without an error, and the other tokens are still converted.
C2_MalformedDropped ==
    pc \in {"returned", "raised"} =>
        /\ error = "none"
        /\ converted = PairsOfTwoSided(dimensions, scale_factor)

------------------------------------------------------------------------------
(* Properties of process_file (Spec, SpecChars) *)

\* C1: the labeled record of (label, (w, h)) has length round(h, 2) and width
\* round(w, 2), w being the first side of the token and h the second.
C1_LengthIsSecondSide ==
    (variant = "secondcode" /\ pc = "done") =>
        \A i \in 1..Len(json_file.data.rooms) :
            json_file.data.rooms[i] =
                [name |-> rooms[i],
                 length |-> PyRound2(converted[i][2]),
                 width |-> PyRound2(converted[i][1]),
                 unit |-> "ft"]

\* C4: n labels and m pairs give min(n, m) records; record i carries label i
\* and the two sides of pair i, in label order; nothing else is emitted.
C4_PositionalZip ==
    (variant = "secondcode" /\ pc \in {"save_json", "done"}) =>
        /\ Len(labeled_data) = Min2(Len(rooms), Len(converted))
        /\ \A i \in 1..Len(labeled_data) :
              /\ labeled_data[i].name = rooms[i]
              /\ <<labeled_data[i].length, labeled_data[i].width>> \in
                    { <<PyRound2(converted[i][1]), PyRound2(converted[i][2])>>,
                      <<PyRound2(converted[i][2]), PyRound2(converted[i][1])>> }
        /\ pc = "done" => json_file.data = [rooms |-> labeled_data]

C4_Witness ==
    /\ variant = "secondcode"
    /\ pc = "done"
    /\ Len(rooms) = 2
    /\ Len(converted) = 1
    /\ Len(json_file.data.rooms) = 1
    /\ rooms[1] # rooms[2]

\* C5 as stated: every pair is the parsed pair times realUnits / mapUnits of the
\* first A:B token of the text, and times 1 when there is no such token.
C5_ScaleOriginal ==
    pc \in PastConvert =>
        LET tok == ScaleTokenAt(text, FirstScaleColon(text))
        IN  converted = TimesFactor(UnscaledPairs,
                                    IF ScaleColons(text) = {} THEN <<1, 1>>
                                    ELSE Frac(tok.realUnits, tok.mapUnits))

\* C5 amended: the first A:B token decides; conversion is reached only when its
\* A is positive; every pair is the parsed pair times B/A when B is not 0, and
\* the parsed pair itself when B is 0 or the text has no such token.
C5_ScaleAmended ==
    pc \in PastConvert =>
        IF ScaleColons(text) = {} THEN converted = UnscaledPairs
        ELSE LET tok == ScaleTokenAt(text, FirstScaleColon(text))
             IN  /\ tok.mapUnits > 0
                 /\ converted = IF tok.realUnits = 0 THEN UnscaledPairs
                                ELSE TimesFactor(UnscaledPairs,
                                                 Frac(tok.realUnits, tok.mapUnits))

C5_Witness ==
    /\ pc = "done"
    /\ Cardinality(ScaleColons(text)) = 2
    /\ \E c \in ScaleColons(text) :
          ScaleTokenAt(text, c).realUnits # ScaleTokenAt(text, FirstScaleColon(text)).realUnits
    /\ Len(converted) >= 1
    /\ converted # UnscaledPairs

\* C7: the unlabeled JSON holds one record per pair, in pair order, with width
\* the first element and length the second.
C7_UnlabeledRecords ==
    (variant = "detector" /\ json_file.written) =>
        /\ Len(json_file.data) = Len(converted)
        /\ \A k \in 1..Len(converted) :
              /\ json_file.data[k].width = FloatStr(converted[k][1]) \o <<" ", "f", "t">>
              /\ json_file.data[k].length = FloatStr(converted[k][2]) \o <<" ", "f", "t">>
              /\ json_file.data[k].unit = "feet"

C7_Witness ==
    /\ variant = "detector"
    /\ json_file.written
    /\ Len(json_file.data) = 2
    /\ converted[1] # converted[2]
    /\ converted[1][1] # converted[1][2]

\* C8: a failure ends the run with nothing written; a file is written only
\* when acquisition, extraction, scaling, conversion (and labeling) are done.
C8_NoOutputOnFailure ==
    /\ error # "none" => pc = "failed"
    /\ pc = "failed" => (error # "none" /\ ~csv_file.written /\ ~json_file.written)
    /\ (csv_file.written \/ json_file.written) =>
          /\ pc \in {"save_json", "done"}
          /\ dimensions = extract_dimensions(text)
          /\ Len(converted) = Len(dimensions)
          /\ variant = "secondcode" =>
                Len(labeled_data) = Min2(Len(rooms), Len(converted))

C8_Witness ==
    /\ pc = "failed"
    /\ error = "ZeroDivisionError"
    /\ Len(dimensions) >= 1
    /\ ~csv_file.written
    /\ ~json_file.written

\* C9: every extracted token splits into two sides that start with a digit,
\* converts without error, and gives the pair at its own index, the tokens
\* lying in the text in that order.
C9_EveryTokenConverts ==
    /\ pc \in {"scale", "convert"} \cup PastConvert =>
          /\ InOrderFrom(dimensions, text, 1)
          /\ \A k \in 1..Len(dimensions) :
                LET parts == PySplit(dimensions[k])
                IN  /\ Len(parts) = 2
                    /\ \A j \in 1..2 :
                          PyStrip(parts[j]) # <<>> /\ PyStrip(parts[j])[1] \in Digits
    /\ pc = "convert" => convert_to_feet(dimensions, scale_factor).error = "none"
    /\ pc = "failed" => dimensions = <<>>
    /\ pc \in PastConvert =>
          /\ Len(converted) = Len(dimensions)
          /\ \A k \in 1..Len(dimensions) :
                converted[k] = ApplyScale(ParsedPair(dimensions[k])[1],
                                          ParsedPair(dimensions[k])[2], scale_factor)

C9_Witness ==
    /\ pc = "done"
    /\ Len(dimensions) = 2
    /\ Len(converted) = 2
    /\ Len(csv_file.data.rows) = 2

\* C10: with a first scale token A:0, A > 0, the pairs and the records are the
\* unscaled ones.
C10_ZeroScaleIsNoScale ==
    (pc \in PastConvert /\ scale # None /\ scale[2] = 0) =>
        /\ converted = UnscaledPairs
        /\ pc = "done" =>
              json_file.data = IF variant = "detector" THEN formatted_data(UnscaledPairs)
                               ELSE [rooms |-> LabelLoop(rooms, UnscaledPairs, 1, <<>>)]

C10_Witness ==
    /\ pc = "done"
    /\ scale # None
    /\ scale[1] > 0
    /\ scale[2] = 0
    /\ Len(converted) >= 1
    /\ converted[1][1][1] # 0

==============================================================================
